---- MODULE Spec2Model ----
(***************************************************************************)
(* Aeon Gateway: the temporal causal simulation engine                     *)
(* (src/src/temporal_model.py, class TemporalModelEngine).                 *)
(*                                                                         *)
(* Numbers.  The engine computes in float64.  Here every real value is a   *)
(* fixed-point integer counted in units of 1/Scale (1.0 is Scale), a       *)
(* product is floored back to that unit (Mul), and the two-decimal values  *)
(* a timeline reports are integers counted in hundredths (Round2).  NaN,   *)
(* which numpy returns for the mean and the percentiles of zero trials, is *)
(* a separate value of the reported numbers (Float records).               *)
(*                                                                         *)
(* Random stream.  numpy's default_rng(seed) is a deterministic stream of  *)
(* standard normal draws fixed by the seed; the engine keeps it in         *)
(* self.rng and every rng.normal(0, sigma, n) consumes the next n draws.   *)
(* The stream is the function StdNormal(seed, index), its draws counted in *)
(* whole standard deviations within -MaxZ..MaxZ, and the engine's position *)
(* in it is part of the state.                                             *)
(***************************************************************************)
EXTENDS Integers, Sequences, FiniteSets, TLC

\* ---------------------------------------------------------------- bounds
\* Trial count of a non-degenerate engine (the reference default is 1000).
MaxTrials == 2
\* Largest day count of the short horizons.
MaxHorizon == 2
\* Largest magnitude, in standard deviations, of one draw of the stream.
MaxZ == 2
\* predict calls made on one engine instance.
MaxPredicts == 2

\* ------------------------------------------------------------- constants
\* The fixed-point unit: 1.0.
Scale == 100 * 100
\* rng.normal(0, 0.05, n) for environmental nodes.
ENV_SIGMA == 500
\* rng.normal(0, 0.1, n) for molecular and biomarker nodes.
NODE_SIGMA == 1000
\* prev_value + 0.02 * total_effect * (1 + noise)
DAMPING == 200
\* baseline_biomarkers.get(biomarker, 1.0), env_changes.get(node, 1.0),
\* modifier.get('multiplier', 1.0), np.ones
DEFAULT_ONE == 10000
\* CRP: mean < 1.0 is low, mean < 3.0 is moderate
CRP_LOW == 10000
CRP_MODERATE == 30000
\* generic: fold_change < 1.5 is low, fold_change < 2.5 is moderate
FOLD_LOW == 15000
FOLD_MODERATE == 25000
\* engine defaults
DEFAULT_SEED == 42
REFERENCE_HORIZON == 90

\* --------------------------------------------------------------- helpers
\* a * b of two fixed-point values, floored to the unit.
Mul(a, b) == (a * b) \div Scale

Max(a, b) == IF a >= b THEN a ELSE b

\* Python's dict.get(k, default); a dict is a function on its keys.
Get(d, k, dflt) == IF k \in DOMAIN d THEN d[k] ELSE dflt

Range(s) == {s[i] : i \in DOMAIN s}

RECURSIVE SumSeq(_)
SumSeq(s) == IF s = <<>> THEN 0 ELSE Head(s) + SumSeq(Tail(s))

\* A reported number: a value in hundredths, or NaN.
NaN == [nan |-> TRUE, v |-> 0]
Num(h) == [nan |-> FALSE, v |-> h]
\* IEEE comparisons: every comparison with NaN is false.
FLe(a, b) == ~a.nan /\ ~b.nan /\ a.v <= b.v
FLt(a, b) == ~a.nan /\ ~b.nan /\ a.v < b.v

\* Python's round(x, 2) of a fixed-point value: the nearest hundredth, ties to
\* the even one.
Round2(x) ==
    LET unit == Scale \div 100
        q == x \div unit
        r == x % unit
    IN  IF 2 * r < unit THEN q
        ELSE IF 2 * r > unit THEN q + 1
        ELSE IF q % 2 = 0 THEN q ELSE q + 1

\* ------------------------------------------------------ the random stream
\* The index-th standard normal draw of default_rng(seed), in standard
\* deviations.
StdNormal(seed, index) ==
    ((seed * 7 + index * 3 + (index \div 2) * ((seed % 5) + 1) + (index \div 5))
        % (2 * MaxZ + 1)) - MaxZ

\* self.rng = np.random.default_rng(random_seed): the stream and how many
\* draws of it are consumed.
default_rng(random_seed) == [seed |-> random_seed, pos |-> 0]

\* rng.normal(0, sigma, n): the next n draws, scaled by sigma.
normal(rng, sigma, n) == [i \in 1..n |-> sigma * StdNormal(rng.seed, rng.pos + i - 1)]

\* ------------------------------------------------------------ GraphBuilder
\* Python's None, for dict.get of a missing key.
None == "<None>"

\* f"{source}->{target}"
EdgeKey(source, target) == source \o "->" \o target

\* The rules applied to every carrier of the rule's gene, whatever the variant.
RECURSIVE ApplyModifiersAnyVariant(_, _, _, _, _, _)
ApplyModifiersAnyVariant(i, base_effect, source, target, user_genetics, genetic_modifiers) ==
    IF i > Len(genetic_modifiers) THEN base_effect
    ELSE LET modifier == genetic_modifiers[i]
             applies == /\ Get(modifier, "affects_edge", None) = EdgeKey(source, target)
                        /\ Get(modifier, "gene", None) \in DOMAIN user_genetics
         IN  ApplyModifiersAnyVariant(i + 1,
                 IF applies THEN Mul(base_effect, Get(modifier, "multiplier", DEFAULT_ONE))
                 ELSE base_effect,
                 source, target, user_genetics, genetic_modifiers)

\* The running effect size after the modifier rules from position i on.
RECURSIVE ApplyModifiersFrom(_, _, _, _, _, _)
ApplyModifiersFrom(i, base_effect, source, target, user_genetics, genetic_modifiers) ==
    IF i > Len(genetic_modifiers) THEN base_effect
    ELSE LET modifier == genetic_modifiers[i]
             gene == Get(modifier, "gene", None)
             required_variant == Get(modifier, "variant", None)
             multiplier == Get(modifier, "multiplier", DEFAULT_ONE)
             applies == /\ Get(modifier, "affects_edge", None) = EdgeKey(source, target)
                        /\ gene \in DOMAIN user_genetics
                        /\ user_genetics[gene] = required_variant
         IN  ApplyModifiersFrom(i + 1,
                 IF applies THEN Mul(base_effect, multiplier) ELSE base_effect,
                 source, target, user_genetics, genetic_modifiers)

apply_genetic_modifier(base_effect, source, target, user_genetics, genetic_modifiers) ==
    ApplyModifiersFrom(1, base_effect, source, target, user_genetics, genetic_modifiers)

\* nx.DiGraph(): nodes and edges in insertion order, graph-level attributes.
EmptyDiGraph == [nodes |-> <<>>, edges |-> <<>>, graph |-> <<>>]

NodeIds(G) == {G.nodes[i].id : i \in DOMAIN G.nodes}

\* G.add_node(id, **attrs): a new node is appended, a node already present
\* has its attributes updated.
add_node(G, id, attrs) ==
    IF id \in NodeIds(G)
    THEN [G EXCEPT !.nodes = [i \in DOMAIN G.nodes |->
              IF G.nodes[i].id = id
              THEN [id |-> id, attrs |-> attrs @@ G.nodes[i].attrs]
              ELSE G.nodes[i]]]
    ELSE [G EXCEPT !.nodes = Append(G.nodes, [id |-> id, attrs |-> attrs])]

\* G.add_edge(u, v, **attrs): an endpoint that is no node yet is added as a
\* node without attributes; an edge (u, v) already present has its
\* attributes replaced (a DiGraph holds one edge per ordered pair).
add_edge(G, u, v, attrs) ==
    LET G1 == IF u \in NodeIds(G) THEN G ELSE add_node(G, u, <<>>)
        G2 == IF v \in NodeIds(G1) THEN G1 ELSE add_node(G1, v, <<>>)
        e == [source |-> u, target |-> v, attrs |-> attrs]
        present == \E i \in DOMAIN G2.edges :
                       G2.edges[i].source = u /\ G2.edges[i].target = v
    IN  IF present
        THEN [G2 EXCEPT !.edges = [i \in DOMAIN G2.edges |->
                  IF G2.edges[i].source = u /\ G2.edges[i].target = v
                  THEN e ELSE G2.edges[i]]]
        ELSE [G2 EXCEPT !.edges = Append(G2.edges, e)]

RECURSIVE AddNodesFrom(_, _, _)
AddNodesFrom(i, G, nodes) ==
    IF i > Len(nodes) THEN G
    ELSE AddNodesFrom(i + 1,
             add_node(G, nodes[i].id,
                      [type |-> nodes[i].type, label |-> nodes[i].label]),
             nodes)

RECURSIVE AddEdgesFrom(_, _, _, _)
AddEdgesFrom(i, G, causal_graph, user_genetics) ==
    IF i > Len(causal_graph.edges) THEN G
    ELSE LET edge == causal_graph.edges[i]
             modified_effect ==
                 apply_genetic_modifier(edge.effect_size, edge.source, edge.target,
                                        user_genetics, causal_graph.genetic_modifiers)
         IN  AddEdgesFrom(i + 1,
                 add_edge(G, edge.source, edge.target,
                          [effect_size |-> modified_effect,
                           temporal_lag_hours |-> edge.temporal_lag_hours,
                           relationship |-> edge.relationship]),
                 causal_graph, user_genetics)

build_model(causal_graph, user_genetics, baseline_biomarkers) ==
    LET G1 == AddNodesFrom(1, EmptyDiGraph, causal_graph.nodes)
        G2 == AddEdgesFrom(1, G1, causal_graph, user_genetics)
    IN  [G2 EXCEPT !.graph = [baseline_biomarkers |-> baseline_biomarkers]]

\* -------------------------------------------------------- SimulationEngine
\* model.nodes[node]['type']: defined when the node carries the attribute.
HasType(nd) == "type" \in DOMAIN nd.attrs

NodeOf(model, id) == model.nodes[CHOOSE i \in DOMAIN model.nodes : model.nodes[i].id = id]

\* The biomarker nodes that have an incoming edge.
biomarker_nodes_with_signal(model) ==
    LET picked == SelectSeq(model.nodes, LAMBDA nd :
                      /\ nd.attrs.type = "biomarker"
                      /\ \E i \in DOMAIN model.edges : model.edges[i].target = nd.id)
    IN  [i \in DOMAIN picked |-> picked[i].id]

\* [n for n, d in model.nodes(data=True) if d['type'] == 'biomarker']
biomarker_nodes(model) ==
    LET picked == SelectSeq(model.nodes, LAMBDA nd : nd.attrs.type = "biomarker")
    IN  [i \in DOMAIN picked |-> picked[i].id]

\* list(model.in_edges(node, data=True))
in_edges(model, node) == SelectSeq(model.edges, LAMBDA e : e.target = node)

\* G.neighbors(node): the successors, in the order their edges were added.
neighbors(model, node) ==
    LET out == SelectSeq(model.edges, LAMBDA e : e.source = node)
    IN  [i \in DOMAIN out |-> out[i].target]

in_degree(model, node) == Len(in_edges(model, node))

\* One node of a generation: every child loses one from its in-degree and
\* joins the next generation when it reaches zero.
RECURSIVE RelaxChildren(_, _, _, _)
RelaxChildren(children, j, indegree_map, zero_indegree) ==
    IF j > Len(children) THEN [indegree_map |-> indegree_map,
                               zero_indegree |-> zero_indegree]
    ELSE LET child == children[j]
             d == indegree_map[child] - 1
         IN  RelaxChildren(children, j + 1,
                 [indegree_map EXCEPT ![child] = d],
                 IF d = 0 THEN Append(zero_indegree, child) ELSE zero_indegree)

RECURSIVE RelaxGeneration(_, _, _, _, _)
RelaxGeneration(model, this_generation, i, indegree_map, zero_indegree) ==
    IF i > Len(this_generation) THEN [indegree_map |-> indegree_map,
                                      zero_indegree |-> zero_indegree]
    ELSE LET r == RelaxChildren(neighbors(model, this_generation[i]), 1,
                                indegree_map, zero_indegree)
         IN  RelaxGeneration(model, this_generation, i + 1,
                             r.indegree_map, r.zero_indegree)

\* networkx.topological_generations, flattened: ok is FALSE when nodes of
\* positive in-degree remain (NetworkXUnfeasible: the graph has a cycle).
RECURSIVE TopologicalFrom(_, _, _, _)
TopologicalFrom(model, indegree_map, zero_indegree, order) ==
    IF zero_indegree = <<>>
    THEN [ok |-> \A id \in DOMAIN indegree_map : indegree_map[id] = 0,
          order |-> order]
    ELSE LET r == RelaxGeneration(model, zero_indegree, 1, indegree_map, <<>>)
         IN  TopologicalFrom(model, r.indegree_map, r.zero_indegree,
                             order \o zero_indegree)

\* list(model.nodes()): the nodes in insertion order.
insertion_order(model) ==
    [ok |-> TRUE, order |-> [i \in DOMAIN model.nodes |-> model.nodes[i].id]]

topological_sort(model) ==
    LET ids == [i \in DOMAIN model.nodes |-> model.nodes[i].id]
        indegree_map == [id \in NodeIds(model) |-> in_degree(model, id)]
        zero_indegree == SelectSeq(ids, LAMBDA id : indegree_map[id] = 0)
    IN  TopologicalFrom(model, indegree_map, zero_indegree, <<>>)

\* The value an incoming edge reads from its source.
source_value(model, source, edge_data, day, trajectories, node_values, n) ==
    IF source \in DOMAIN node_values THEN node_values[source]
    ELSE IF source \in DOMAIN trajectories
    THEN LET lag_day == Max(0, (day * 24 - edge_data.temporal_lag_hours) \div 24)
         IN  trajectories[source][lag_day]
    ELSE [i \in 1..n |-> DEFAULT_ONE]

\* total_effect with the lag test skipped for a source that has a value of
\* the same day.
RECURSIVE TotalEffectSameDayFirst(_, _, _, _, _, _, _, _)
TotalEffectSameDayFirst(j, incoming_edges, model, day, trajectories, node_values, n, total_effect) ==
    IF j > Len(incoming_edges) THEN total_effect
    ELSE LET e == incoming_edges[j]
             sv == source_value(model, e.source, e.attrs, day, trajectories,
                                node_values, n)
             counted == \/ e.source \in DOMAIN node_values
                        \/ day * 24 >= e.attrs.temporal_lag_hours
         IN  TotalEffectSameDayFirst(j + 1, incoming_edges, model, day, trajectories,
                 node_values, n,
                 IF counted
                 THEN [i \in 1..n |-> total_effect[i] + Mul(e.attrs.effect_size, sv[i])]
                 ELSE total_effect)

\* total_effect with an edge counted only after its lag, not on the day the
\* lag ends.
RECURSIVE TotalEffectAfterLag(_, _, _, _, _, _, _, _)
TotalEffectAfterLag(j, incoming_edges, model, day, trajectories, node_values, n, total_effect) ==
    IF j > Len(incoming_edges) THEN total_effect
    ELSE LET e == incoming_edges[j]
             sv == source_value(model, e.source, e.attrs, day, trajectories,
                                node_values, n)
         IN  TotalEffectAfterLag(j + 1, incoming_edges, model, day, trajectories,
                 node_values, n,
                 IF day * 24 > e.attrs.temporal_lag_hours
                 THEN [i \in 1..n |-> total_effect[i] + Mul(e.attrs.effect_size, sv[i])]
                 ELSE total_effect)

\* total_effect with the edges tagged inhibits or decreases subtracted.
RECURSIVE TotalEffectSigned(_, _, _, _, _, _, _, _)
TotalEffectSigned(j, incoming_edges, model, day, trajectories, node_values, n, total_effect) ==
    IF j > Len(incoming_edges) THEN total_effect
    ELSE LET e == incoming_edges[j]
             sv == source_value(model, e.source, e.attrs, day, trajectories,
                                node_values, n)
             sign == IF e.attrs.relationship \in {"inhibits", "decreases"} THEN -1 ELSE 1
         IN  TotalEffectSigned(j + 1, incoming_edges, model, day, trajectories,
                 node_values, n,
                 IF day * 24 >= e.attrs.temporal_lag_hours
                 THEN [i \in 1..n |->
                          total_effect[i] + sign * Mul(e.attrs.effect_size, sv[i])]
                 ELSE total_effect)

\* total_effect after the incoming edges from position j on.
RECURSIVE TotalEffectFrom(_, _, _, _, _, _, _, _)
TotalEffectFrom(j, incoming_edges, model, day, trajectories, node_values, n, total_effect) ==
    IF j > Len(incoming_edges) THEN total_effect
    ELSE LET e == incoming_edges[j]
             sv == source_value(model, e.source, e.attrs, day, trajectories,
                                node_values, n)
             \* day >= temporal_lag_hours / 24
             elapsed == day * 24 >= e.attrs.temporal_lag_hours
         IN  TotalEffectFrom(j + 1, incoming_edges, model, day, trajectories,
                 node_values, n,
                 IF elapsed
                 THEN [i \in 1..n |-> total_effect[i] + Mul(e.attrs.effect_size, sv[i])]
                 ELSE total_effect)

\* np.ones for every node without incoming edges, a biomarker included.
no_signal_ones(tracked, trajectories, node, day, n) == [i \in 1..n |-> DEFAULT_ONE]

\* A molecular or biomarker node without incoming edges: the previous day of
\* a biomarker's trajectory, else np.ones.
no_signal_value(tracked, trajectories, node, day, n) ==
    IF tracked THEN trajectories[node][day - 1] ELSE [i \in 1..n |-> DEFAULT_ONE]

\* Every node set to the day's effect, a biomarker included.
node_update_reset(tracked, prev_value, total_effect, noise) ==
    Mul(total_effect, Scale + noise)

\* A biomarker accumulating the whole effect of the day.
node_update_undamped(tracked, prev_value, total_effect, noise) ==
    IF tracked
    THEN prev_value + Mul(total_effect, Scale + noise)
    ELSE Mul(total_effect, Scale + noise)

\* A node with incoming edges, one trial: a biomarker accumulates on its
\* previous day, any other node is set to the day's effect.
node_update(tracked, prev_value, total_effect, noise) ==
    IF tracked
    THEN prev_value + Mul(Mul(DAMPING, total_effect), Scale + noise)
    ELSE Mul(total_effect, Scale + noise)

\* A draw that takes one value from the stream, whatever the width asked for.
consumed_one(rng, n) == [rng EXCEPT !.pos = @ + 1]

\* The stream after self.rng.normal(0, sigma, self.n_simulations).
consumed(rng, n) == [rng EXCEPT !.pos = @ + n]

\* An environmental node, one trial.
environmental_value(multiplier, noise) == Mul(multiplier, Scale + noise)

\* One node of the day's order: its value, and the stream after it.
NodeStep(model, env_changes, day, trajectories, node, node_values, rng, n) ==
    LET node_type == NodeOf(model, node).attrs.type
        incoming_edges == in_edges(model, node)
        tracked == node_type = "biomarker" /\ node \in DOMAIN trajectories
    IN  IF node_type = "environmental"
        THEN LET multiplier == Get(env_changes, node, DEFAULT_ONE)
                 noise == normal(rng, ENV_SIGMA, n)
             IN  [node_values |->
                      (node :> [i \in 1..n |-> environmental_value(multiplier, noise[i])])
                      @@ node_values,
                  rng |-> consumed(rng, n)]
        ELSE IF node_type \in {"molecular", "biomarker"}
        THEN IF incoming_edges = <<>>
             THEN [node_values |->
                      (node :> no_signal_value(tracked, trajectories, node, day, n))
                      @@ node_values,
                   rng |-> rng]
             ELSE LET total_effect ==
                          TotalEffectFrom(1, incoming_edges, model, day, trajectories,
                                          node_values, n, [i \in 1..n |-> 0])
                      noise == normal(rng, NODE_SIGMA, n)
                  IN  [node_values |->
                           (node :> [i \in 1..n |->
                               node_update(tracked,
                                   IF tracked THEN trajectories[node][day - 1][i] ELSE 0,
                                   total_effect[i], noise[i])])
                           @@ node_values,
                       rng |-> consumed(rng, n)]
        ELSE [node_values |-> node_values, rng |-> rng]

RECURSIVE StepFrom(_, _, _, _, _, _, _, _)
StepFrom(k, sorted_nodes, model, env_changes, day, trajectories, acc, n) ==
    IF k > Len(sorted_nodes) THEN acc
    ELSE StepFrom(k + 1, sorted_nodes, model, env_changes, day, trajectories,
                  NodeStep(model, env_changes, day, trajectories, sorted_nodes[k],
                           acc.node_values, acc.rng, n),
                  n)

\* nx.topological_sort raises NetworkXUnfeasible on a cycle, which is no
\* NetworkXError: the except clause does not catch it and the step raises.
monte_carlo_step(model, env_changes, day, trajectories, rng, n) ==
    LET sorted == topological_sort(model)
        done == StepFrom(1, sorted.order, model, env_changes, day, trajectories,
                         [node_values |-> <<>>, rng |-> rng], n)
    IN  IF sorted.ok
        THEN [raised |-> None, node_values |-> done.node_values, rng |-> done.rng]
        ELSE [raised |-> "NetworkXUnfeasible", node_values |-> <<>>, rng |-> rng]

\* ------------------------------------------------------ TimelineSummarizer
\* An unrounded statistic: a fixed-point value, or NaN.
\* float(np.mean(values)): NaN for no values.
mean_of(values) ==
    IF Len(values) = 0 THEN NaN ELSE Num(SumSeq(values) \div Len(values))

\* The k-th smallest of the values (k from 1).
KthSmallest(values, k) ==
    CHOOSE v \in Range(values) :
        /\ Cardinality({i \in DOMAIN values : values[i] < v}) < k
        /\ k <= Cardinality({i \in DOMAIN values : values[i] <= v})

\* float(np.percentile(values, q)), q given in tenths of a percent: linear
\* interpolation between the two order statistics around (n - 1) * q / 100;
\* NaN for no values.
percentile(values, q10) ==
    LET n == Len(values)
        h == (n - 1) * q10
        lo == h \div 1000
        frac == h % 1000
        below == KthSmallest(values, lo + 1)
        above == KthSmallest(values, IF lo + 2 <= n THEN lo + 2 ELSE n)
    IN  IF n = 0 THEN NaN
        ELSE Num(below + ((above - below) * frac) \div 1000)

\* round(x, 2) of a statistic; round(nan, 2) is nan.
round2(x) == IF x.nan THEN NaN ELSE Num(Round2(x.v))

\* The generic rule with a level outside the closed set for large changes.
risk_of_critical(biomarker, mean, baseline) ==
    IF biomarker = "CRP"
    THEN IF FLt(mean, Num(CRP_LOW)) THEN "low"
         ELSE IF FLt(mean, Num(CRP_MODERATE)) THEN "moderate"
         ELSE "high"
    ELSE IF baseline > 0 /\ ~mean.nan /\ mean.v * Scale >= FOLD_MODERATE * baseline
         THEN "critical"
         ELSE "low"

\* The thresholds taken as the upper ends of their classes.
risk_of_inclusive(biomarker, mean, baseline) ==
    IF biomarker = "CRP"
    THEN IF FLe(mean, Num(CRP_LOW)) THEN "low"
         ELSE IF FLe(mean, Num(CRP_MODERATE)) THEN "moderate"
         ELSE "high"
    ELSE LET fold_change == IF baseline > 0
                            THEN IF mean.nan THEN NaN
                                 ELSE Num((mean.v * Scale) \div baseline)
                            ELSE Num(DEFAULT_ONE)
         IN  IF FLe(fold_change, Num(FOLD_LOW)) THEN "low"
             ELSE IF FLe(fold_change, Num(FOLD_MODERATE)) THEN "moderate"
             ELSE "high"

\* The risk stratification of one checkpoint.  A comparison with NaN is
\* false, so a NaN mean falls through to the last branch.
risk_of(biomarker, mean, baseline) ==
    IF biomarker = "CRP"
    THEN IF FLt(mean, Num(CRP_LOW)) THEN "low"
         ELSE IF FLt(mean, Num(CRP_MODERATE)) THEN "moderate"
         ELSE "high"
    ELSE LET fold_change == IF baseline > 0
                            THEN IF mean.nan THEN NaN
                                 ELSE Num((mean.v * Scale) \div baseline)
                            ELSE Num(DEFAULT_ONE)
         IN  IF FLt(fold_change, Num(FOLD_LOW)) THEN "low"
             ELSE IF FLt(fold_change, Num(FOLD_MODERATE)) THEN "moderate"
             ELSE "high"

\* The checkpoint days strictly before the horizon.
sample_days_before(horizon_days) ==
    SelectSeq(<<0, 30, 60, 90>>, LAMBDA d : d < horizon_days)

\* sample_days = [d for d in [0, 30, 60, 90] if d <= horizon_days]
sample_days(horizon_days) ==
    SelectSeq(<<0, 30, 60, 90>>, LAMBDA d : d <= horizon_days)

timeline_point(biomarker, trajectory, baseline, day) ==
    LET values == trajectory[day]
        mean == mean_of(values)
        ci_lower == percentile(values, 25)
        ci_upper == percentile(values, 975)
    IN  [day |-> day,
         mean |-> round2(mean),
         confidence_interval |-> <<round2(ci_lower), round2(ci_upper)>>,
         risk_level |-> risk_of(biomarker, mean, baseline)]

unit_of(biomarker) ==
    IF biomarker = "CRP" THEN "mg/L"
    ELSE IF biomarker = "IL6" THEN "pg/mL" ELSE "units"

\* PredictionTimeline.validate_timeline_structure: every entry carries the
\* four fields, a two-element interval and a risk level of the closed set.
validate_timeline_structure(timeline) ==
    \A i \in DOMAIN timeline :
        /\ {"day", "mean", "confidence_interval", "risk_level"} \subseteq DOMAIN timeline[i]
        /\ Len(timeline[i].confidence_interval) = 2
        /\ timeline[i].risk_level \in {"low", "moderate", "high", "unknown"}

\* _create_timeline: the PredictionTimeline, or the validator's error.
create_timeline(biomarker, trajectory, baseline, horizon_days) ==
    LET days == sample_days(horizon_days)
        timeline_points == [i \in DOMAIN days |->
                               timeline_point(biomarker, trajectory, baseline, days[i])]
    IN  IF validate_timeline_structure(timeline_points)
        THEN [raised |-> None,
              baseline |-> baseline,
              timeline |-> timeline_points,
              unit |-> unit_of(biomarker)]
        ELSE [raised |-> "ValidationError",
              baseline |-> baseline,
              timeline |-> <<>>,
              unit |-> unit_of(biomarker)]

\* ---------------------------------------------------------------- inputs
Node(id, type, label) == [id |-> id, type |-> type, label |-> label]

Edge(source, target, relationship, effect_size, temporal_lag_hours) ==
    [source |-> source, target |-> target, relationship |-> relationship,
     effect_size |-> effect_size, temporal_lag_hours |-> temporal_lag_hours]

\* tests/mocks/agentic_system.py, _sf_to_la_response: PM2.5 -> NFKB1 -> IL6 -> CRP
ChainNodes ==
    << Node("PM2.5", "environmental", "Particulate Matter (PM2.5)"),
       Node("NFKB1", "molecular", "NF-kB p50"),
       Node("IL6", "molecular", "Interleukin-6"),
       Node("CRP", "biomarker", "C-Reactive Protein") >>

ChainEdges ==
    << Edge("PM2.5", "NFKB1", "activates", 6500, 6),
       Edge("NFKB1", "IL6", "increases", 7800, 12),
       Edge("IL6", "CRP", "increases", 9000, 24) >>

\* Modifier rules: one in the mock's shape (no affects_edge key), one that
\* amplifies IL6->CRP for GSTM1 null carriers, one with a negative multiplier
\* (genetic_modifiers is List[Dict]: nothing validates a rule).
ChainModifiers ==
    << [variant |-> "GSTM1_null", effect_type |-> "amplifies"],
       [affects_edge |-> "IL6->CRP", gene |-> "GSTM1", variant |-> "null",
        multiplier |-> 13000],
       [affects_edge |-> "NFKB1->IL6", gene |-> "TNF-alpha", variant |-> "-308G/A",
        multiplier |-> -5000] >>

CausalGraphs ==
    { \* the reference fixture
      [nodes |-> ChainNodes, edges |-> ChainEdges,
       genetic_modifiers |-> ChainModifiers],
      \* the chain, a biomarker without incoming edges and a genetic node
      [nodes |-> ChainNodes \o << Node("ALB", "biomarker", "Albumin"),
                                  Node("GSTM1", "genetic", "GSTM1") >>,
       edges |-> ChainEdges, genetic_modifiers |-> ChainModifiers],
      \* no biomarker node
      [nodes |-> SubSeq(ChainNodes, 1, 2), edges |-> SubSeq(ChainEdges, 1, 1),
       genetic_modifiers |-> <<>>],
      \* the empty graph
      [nodes |-> <<>>, edges |-> <<>>, genetic_modifiers |-> <<>>] }

\* gene -> variant
Genetics ==
    { ("APOE" :> "e3/e3") @@ ("IL6" :> "GG") @@ ("GSTM1" :> "present"),
      ("GSTM1" :> "null"),
      ("TNF-alpha" :> "-308G/A") }

\* biomarker -> current value (validated non-negative)
Baselines ==
    { ("CRP" :> 7000),
      <<>>,
      ("CRP" :> 7050) @@ ("ALB" :> 0) }

\* node id -> multiplier
EnvironmentalChanges == { <<>>, ("PM2.5" :> 18000) }

Seeds == {DEFAULT_SEED, 7}

\* What one engine instance is constructed and called with.
Input(g, gen, base, env, h, n, seed) ==
    [causal_graph |-> g, user_genetics |-> gen, baseline_biomarkers |-> base,
     environmental_changes |-> env, horizon_days |-> h,
     n_simulations |-> n, random_seed |-> seed]

ShortInputs ==
    { Input(g, gen, base, env, h, n, DEFAULT_SEED) :
        g \in CausalGraphs, gen \in Genetics, base \in Baselines,
        env \in EnvironmentalChanges, h \in {-1, 0, MaxHorizon},
        n \in {0, MaxTrials} }

\* The reference scenario and its neighbours, over the full horizon.
ReferenceInputs ==
    { Input(g, gen, ("CRP" :> 7000), env, REFERENCE_HORIZON, MaxTrials, DEFAULT_SEED) :
        g \in {c \in CausalGraphs : Len(c.nodes) = 4},
        gen \in Genetics, env \in EnvironmentalChanges }

Inputs == ShortInputs \cup ReferenceInputs

\* The second engine's input: the first one's, changed in one item.
Variations ==
    {"same", "seed", "env_up", "env_key", "rule", "edge_source", "edge_target",
     "edge_back", "edge_dup", "rule_match", "lag_slow", "edge_genetic", "node_order",
     "edge_tags"}

Vary(v, x) ==
    CASE v = "same" -> x
      [] v = "seed" -> [x EXCEPT !.random_seed = 7]
      [] v = "env_up" ->
            [x EXCEPT !.environmental_changes =
                ("PM2.5" :> (Get(@, "PM2.5", DEFAULT_ONE) + 7000)) @@ @]
      [] v = "env_key" ->
            [x EXCEPT !.environmental_changes = ("O3" :> 15000) @@ @]
      [] v = "rule" ->
            [x EXCEPT !.causal_graph.genetic_modifiers =
                Append(@, [affects_edge |-> "IL6->TNF", gene |-> "GSTM1",
                           variant |-> "null", multiplier |-> 20000])]
      [] v = "edge_source" ->
            [x EXCEPT !.causal_graph.edges =
                Append(@, Edge("GHOST", "CRP", "increases", 5000, 0))]
      [] v = "edge_target" ->
            [x EXCEPT !.causal_graph.edges =
                Append(@, Edge("PM2.5", "GHOST", "increases", 5000, 0))]
      \* an edge back from the biomarker: a directed cycle
      [] v = "edge_back" ->
            [x EXCEPT !.causal_graph.edges =
                Append(@, Edge("CRP", "NFKB1", "activates", 5000, 0))]
      \* a second edge between the endpoints of an earlier one
      [] v = "edge_dup" ->
            [x EXCEPT !.causal_graph.edges =
                Append(@, Edge("IL6", "CRP", "inhibits", 1000, 0))]
      \* a second rule for the edge IL6->CRP and the GSTM1 null variant
      [] v = "rule_match" ->
            [x EXCEPT !.causal_graph.genetic_modifiers =
                Append(@, [affects_edge |-> "IL6->CRP", gene |-> "GSTM1",
                           variant |-> "null", multiplier |-> 5000])]
      \* an edge whose source is a genetic node, which never gets a value
      [] v = "edge_genetic" ->
            [x EXCEPT !.causal_graph.edges =
                Append(@, Edge("GSTM1", "IL6", "increases", 5000, 0))]
      \* every edge tagged with the opposite relationship
      [] v = "edge_tags" ->
            [x EXCEPT !.causal_graph.edges =
                [i \in DOMAIN @ |->
                    [@[i] EXCEPT !.relationship =
                        IF @ = "activates" THEN "inhibits" ELSE "decreases"]]]
      \* the node list in the opposite order
      [] v = "node_order" ->
            [x EXCEPT !.causal_graph.nodes =
                [i \in DOMAIN @ |-> @[Len(@) + 1 - i]]]
      \* the last edge with a lag of three days
      [] v = "lag_slow" ->
            [x EXCEPT !.causal_graph.edges =
                [i \in DOMAIN @ |->
                    IF i = Len(@) THEN [@[i] EXCEPT !.temporal_lag_hours = 72] ELSE @[i]]]

\* ----------------------------------------------------------------- state
VARIABLES
    args,            \* engine -> what the caller constructs and calls it with
    n_simulations,   \* engine -> self.n_simulations
    rng,             \* engine -> self.rng
    model,           \* engine -> the graph build_model returned, or None
    pc,              \* engine -> "new", "built", "running", "returned", "raised"
    day,             \* engine -> the day of the running predict's loop
    trajectories,    \* engine -> the running predict's trajectories
    results,         \* engine -> what its predict calls returned or raised
    day_values,      \* engine -> the node values the latest day step returned
    summary,         \* a direct _create_timeline call: <<>>, or its arguments and result
    gateway          \* the query endpoint: its request, position and answer

vars ==
    <<args, n_simulations, rng, model, pc, day, trajectories, day_values, results,
      summary, gateway>>

\* The endpoint before a request, with or without AGENTIC_SYSTEM_URL.
NoRequest(agentic_url) ==
    [phase |-> "waiting", agentic_url |-> agentic_url, request |-> <<>>,
     status |-> 0, queried |-> FALSE, client |-> "none", response |-> <<>>]

Engines == {1, 2}

\* The engine's stream as a day step reads it.
SharedStream(e) ==
    [seed |-> rng[e].seed, pos |-> SumSeq([i \in 1..2 |-> rng[i].pos])]
EngineStream(e) == rng[e]

\* TemporalModelEngine(n_simulations, random_seed)
Init ==
    /\ \E x \in Inputs, v \in Variations : args = (1 :> x) @@ (2 :> Vary(v, x))
    /\ n_simulations = [e \in Engines |-> args[e].n_simulations]
    /\ rng = [e \in Engines |-> default_rng(args[e].random_seed)]
    /\ model = [e \in Engines |-> None]
    /\ pc = [e \in Engines |-> "new"]
    /\ day = [e \in Engines |-> 0]
    /\ trajectories = [e \in Engines |-> <<>>]
    /\ day_values = [e \in Engines |-> <<>>]
    /\ results = [e \in Engines |-> <<>>]
    /\ summary = <<>>
    /\ gateway = NoRequest(FALSE)

\* The caller is one thread: a call runs to its end before the next one
\* starts, and the second engine is used after the first.
Idle == \A e \in Engines : pc[e] # "running"
Finished(e) == pc[e] \in {"returned", "raised"} /\ Len(results[e]) = MaxPredicts
Turn(e) == Idle /\ \A o \in Engines : o < e => Finished(o)

\* engine.build_model(causal_graph, user_genetics, baseline_biomarkers)
BuildModel(e) ==
    /\ pc[e] = "new"
    /\ Turn(e)
    /\ model' = [model EXCEPT ![e] =
           build_model(args[e].causal_graph, args[e].user_genetics,
                       args[e].baseline_biomarkers)]
    /\ pc' = [pc EXCEPT ![e] = "built"]
    /\ UNCHANGED <<args, n_simulations, rng, day, trajectories, day_values, results, summary, gateway>>

\* What a finished predict call leaves with the caller.
Outcome(raised, predictions, steps) ==
    [raised |-> raised, predictions |-> predictions, steps |-> steps]

\* The allocation without the assignment of column 0.
new_trajectory_zeros(n, horizon_days, baseline) ==
    [d \in 0..horizon_days |-> [i \in 1..n |-> 0]]

\* np.zeros((n, horizon_days + 1)) with column 0 set to the baseline.
new_trajectory(n, horizon_days, baseline) ==
    [d \in 0..horizon_days |-> [i \in 1..n |-> IF d = 0 THEN baseline ELSE 0]]

\* predict, to the start of the day loop: the biomarker nodes are listed
\* (KeyError 'type' for a node without the attribute) and the trajectories
\* allocated (np.zeros raises ValueError for a negative dimension; column 0
\* of an array without columns raises IndexError).
PredictStart(e) ==
    /\ pc[e] \in {"built", "returned", "raised"}
    /\ Len(results[e]) < MaxPredicts
    /\ Turn(e)
    /\ LET m == model[e]
           h == args[e].horizon_days
           baseline_biomarkers == m.graph.baseline_biomarkers
           typed == \A i \in DOMAIN m.nodes : HasType(m.nodes[i])
           bios == biomarker_nodes(m)
           raised == IF ~typed THEN "KeyError"
                     ELSE IF bios = <<>> THEN None
                     ELSE IF h + 1 < 0 THEN "ValueError"
                     ELSE IF h + 1 = 0 THEN "IndexError"
                     ELSE None
       IN  IF raised # None
           THEN /\ results' = [results EXCEPT ![e] = Append(@, Outcome(raised, <<>>, 0))]
                /\ pc' = [pc EXCEPT ![e] = "raised"]
                /\ UNCHANGED <<day, trajectories, day_values>>
           ELSE /\ trajectories' = [trajectories EXCEPT ![e] =
                       [b \in Range(bios) |->
                           new_trajectory(n_simulations[e], h,
                                          Get(baseline_biomarkers, b, DEFAULT_ONE))]]
                /\ day' = [day EXCEPT ![e] = 1]
                /\ day_values' = [day_values EXCEPT ![e] = <<>>]
                /\ pc' = [pc EXCEPT ![e] = "running"]
                /\ UNCHANGED results
    /\ UNCHANGED <<args, n_simulations, rng, model, summary, gateway>>

\* The day's values written into the day's column and every later one.
write_columns_from(trajectory, d, values) ==
    [c \in DOMAIN trajectory |-> IF c >= d THEN values ELSE trajectory[c]]

\* trajectories[biomarker][:, day] = day_values[biomarker]
write_column(trajectory, d, values) == [trajectory EXCEPT ![d] = values]

\* One pass of the day loop: the step, then the biomarkers' column of the day.
DayStep(e) ==
    /\ pc[e] = "running"
    /\ day[e] <= args[e].horizon_days
    /\ LET step == monte_carlo_step(model[e], args[e].environmental_changes, day[e],
                                    trajectories[e], EngineStream(e), n_simulations[e])
       IN  IF step.raised # None
           THEN /\ results' = [results EXCEPT ![e] =
                       Append(@, Outcome(step.raised, <<>>, day[e] - 1))]
                /\ pc' = [pc EXCEPT ![e] = "raised"]
                /\ trajectories' = [trajectories EXCEPT ![e] = <<>>]
                /\ day' = [day EXCEPT ![e] = 0]
                /\ day_values' = [day_values EXCEPT ![e] = <<>>]
                /\ UNCHANGED rng
           ELSE /\ trajectories' = [trajectories EXCEPT ![e] =
                       [b \in DOMAIN @ |->
                           IF b \in DOMAIN step.node_values
                           THEN write_column(@[b], day[e], step.node_values[b])
                           ELSE @[b]]]
                /\ rng' = [rng EXCEPT ![e] = step.rng]
                /\ day_values' = [day_values EXCEPT ![e] = step.node_values]
                /\ day' = [day EXCEPT ![e] = @ + 1]
                /\ UNCHANGED <<pc, results>>
    /\ UNCHANGED <<args, n_simulations, model, summary, gateway>>

\* predict, after the day loop: one timeline per biomarker node.
PredictReturn(e) ==
    /\ pc[e] = "running"
    /\ day[e] > args[e].horizon_days
    /\ LET baseline_biomarkers == model[e].graph.baseline_biomarkers
           predictions ==
               [b \in DOMAIN trajectories[e] |->
                   create_timeline(b, trajectories[e][b],
                                   Get(baseline_biomarkers, b, DEFAULT_ONE),
                                   args[e].horizon_days)]
           invalid == \E b \in DOMAIN predictions : predictions[b].raised # None
       IN  /\ results' = [results EXCEPT ![e] =
                  Append(@, IF invalid
                            THEN Outcome("ValidationError", <<>>, day[e] - 1)
                            ELSE Outcome(None, predictions, day[e] - 1))]
           /\ pc' = [pc EXCEPT ![e] = IF invalid THEN "raised" ELSE "returned"]
    /\ trajectories' = [trajectories EXCEPT ![e] = <<>>]
    /\ day' = [day EXCEPT ![e] = 0]
    /\ day_values' = [day_values EXCEPT ![e] = <<>>]
    /\ UNCHANGED <<args, n_simulations, rng, model, summary, gateway>>

Next ==
    \E e \in Engines :
        \/ BuildModel(e)
        \/ PredictStart(e)
        \/ DayStep(e)
        \/ PredictReturn(e)

Spec == Init /\ [][Next]_vars

\* ------------------------------------------- the summarizer, called alone
\* Trial values of one day: n trials, the last k of them at hi, the rest at lo.
Column(n, k, lo, hi) == [i \in 1..n |-> IF i > n - k THEN hi ELSE lo]

\* Trial counts of the direct calls: none, few, and the counts around which
\* the 97.5th percentile stops interpolating up to the largest value.
SummaryTrials == {0, 1, MaxTrials, 40, 41}

SummaryValues == {0, 7000, 10000, 15000, 25000, 90000}

\* Horizons of the direct calls: at, between and beyond the checkpoint days.
SummaryHorizons == {0, 30, 45, 90}

InitSummary ==
    /\ args = [e \in Engines |->
                  Input([nodes |-> <<>>, edges |-> <<>>, genetic_modifiers |-> <<>>],
                        <<>>, <<>>, <<>>, 0, 0, DEFAULT_SEED)]
    /\ n_simulations = [e \in Engines |-> 0]
    /\ rng = [e \in Engines |-> default_rng(DEFAULT_SEED)]
    /\ model = [e \in Engines |-> None]
    /\ pc = [e \in Engines |-> "new"]
    /\ day = [e \in Engines |-> 0]
    /\ trajectories = [e \in Engines |-> <<>>]
    /\ day_values = [e \in Engines |-> <<>>]
    /\ results = [e \in Engines |-> <<>>]
    /\ summary = <<>>
    /\ gateway = NoRequest(FALSE)

\* engine._create_timeline(biomarker, trajectory, baseline, horizon_days) on a
\* trajectory whose day 0 holds the baseline in every trial.
CreateTimeline ==
    /\ summary = <<>>
    /\ \E biomarker \in {"CRP", "IL6", "ALB"}, baseline \in {-10000, 0, 7000, 10000},
          horizon_days \in SummaryHorizons, n \in SummaryTrials, k \in 0..MaxTrials,
          lo \in SummaryValues, hi \in SummaryValues :
          /\ k <= n
          /\ lo <= hi
          /\ LET trajectory == [d \in 0..horizon_days |->
                                   IF d = 0 THEN Column(n, 0, baseline, baseline)
                                   ELSE Column(n, k, lo, hi)]
             IN  summary' = << [biomarker |-> biomarker, trajectory |-> trajectory,
                                baseline |-> baseline, horizon_days |-> horizon_days,
                                result |-> create_timeline(biomarker, trajectory,
                                                           baseline, horizon_days)] >>
    /\ UNCHANGED <<args, n_simulations, rng, model, pc, day, trajectories, day_values, results, gateway>>

\* The caller drops the timeline.
DropTimeline ==
    /\ summary # <<>>
    /\ summary' = <<>>
    /\ UNCHANGED <<args, n_simulations, rng, model, pc, day, trajectories, day_values, results, gateway>>

NextSummary == CreateTimeline \/ DropTimeline

SpecSummary == InitSummary /\ [][NextSummary]_vars

\* ------------------------------------------------------ the query endpoint
\* A validator that accepts every value.
validate_nothing(v) == TRUE

\* UserContext.validate_positive_values: biomarker values are non-negative.
validate_positive_values(v) == \A key \in DOMAIN v : v[key] >= 0

\* FastAPI's validation of the request body against QueryRequest, before the
\* handler is called: the required fields and the field validators.
QueryRequestValid(body) ==
    /\ "user_context" \in DOMAIN body
    /\ "query" \in DOMAIN body
    /\ validate_positive_values(body.user_context.current_biomarkers)

\* The fragments the code looks for that occur in the lower-cased text.
Fragments(text) ==
    CASE text = "How will moving to LA affect my inflammation?" -> {"la", "inflammation"}
      [] text = "Los Angeles" -> {"los angeles"}
      [] text = "Atlanta" -> {"la"}
      [] OTHER -> {}

\* fragment in text.lower()
Contains(text, fragment) == fragment \in Fragments(text)

\* What the agentic system answers: status, and the causal graph if any.
AgenticResponse(status, has_graph, causal_graph) ==
    [status |-> status, has_graph |-> has_graph, causal_graph |-> causal_graph]

NoGraph == [nodes |-> <<>>, edges |-> <<>>, genetic_modifiers |-> <<>>]

\* MockAgenticSystem._sf_to_la_response
SfToLaResponse ==
    AgenticResponse("success", TRUE,
        [nodes |-> ChainNodes, edges |-> ChainEdges,
         genetic_modifiers |->
             << [variant |-> "GSTM1_null", effect_type |-> "amplifies"],
                [variant |-> "TNF-alpha_-308G/A", effect_type |-> "amplifies"] >>])

\* MockAgenticSystem._generic_response: a graph without nodes
GenericResponse == AgenticResponse("success", TRUE, NoGraph)

\* MockAgenticSystem.query
mock_query(request) ==
    LET query_text == Get(request.query, "text", "")
    IN  IF /\ Contains(query_text, "la") \/ Contains(query_text, "los angeles")
           /\ Contains(query_text, "inflammation")
        THEN SfToLaResponse
        ELSE GenericResponse

\* AgenticSystemClientSync.query: the parsed response, or the exception of the
\* post, of raise_for_status or of the response's validation, re-raised.
ClientOutcomes ==
    { [raised |-> None, response |-> SfToLaResponse],
      [raised |-> None, response |-> GenericResponse],
      [raised |-> None, response |->
          AgenticResponse("success", TRUE,
              [nodes |-> ChainNodes,
               edges |-> Append(ChainEdges, Edge("CRP", "NFKB1", "activates", 5000, 0)),
               genetic_modifiers |-> <<>>])],
      [raised |-> None, response |-> AgenticResponse("success", FALSE, NoGraph)],
      [raised |-> None, response |-> AgenticResponse("error", FALSE, NoGraph)],
      [raised |-> "HTTPStatusError", response |-> AgenticResponse("error", FALSE, NoGraph)],
      [raised |-> "ConnectError", response |-> AgenticResponse("error", FALSE, NoGraph)],
      [raised |-> "ValidationError", response |-> AgenticResponse("error", FALSE, NoGraph)] }

\* Step 1 of the handler ends in HTTPException(500).
AgenticFailed(outcome) ==
    \/ outcome.raised # None
    \/ outcome.response.status # "success"
    \/ ~outcome.response.has_graph

\* _infer_environmental_changes
infer_environmental_changes(user_context) ==
    LET location_history == user_context.location_history
        last_location == Get(location_history[Len(location_history)], "city", "")
    IN  IF location_history = <<>> THEN <<>>
        ELSE IF Contains(last_location, "los angeles") \/ Contains(last_location, "la")
        THEN ("PM2.5" :> 18000)
        ELSE <<>>

\* Request bodies: with and without the query field, with and without a
\* negative biomarker value.
UserContexts ==
    { [user_id |-> "sarah", genetics |-> gen, current_biomarkers |-> bio,
       location_history |-> loc] :
        gen \in Genetics,
        bio \in { ("CRP" :> 7000), <<>>, ("CRP" :> -5000),
                  ("CRP" :> 7000) @@ ("IL6" :> -1) },
        loc \in { <<>>,
                  << [city |-> "San Francisco"], [city |-> "Los Angeles"] >>,
                  << [city |-> "Los Angeles"], [city |-> "San Francisco"] >>,
                  << [city |-> "Atlanta"] >> } }

Requests ==
    { [user_context |-> uc] : uc \in UserContexts }
    \cup { [user_context |-> uc, query |-> q] :
               uc \in UserContexts,
               q \in { ("text" :> "How will moving to LA affect my inflammation?"),
                       ("text" :> "test"),
                       ("intent" :> "prediction") } }

InitGateway ==
    /\ args = [e \in Engines |-> Input(NoGraph, <<>>, <<>>, <<>>, 0, 0, DEFAULT_SEED)]
    /\ n_simulations = [e \in Engines |-> 0]
    /\ rng = [e \in Engines |-> default_rng(DEFAULT_SEED)]
    /\ model = [e \in Engines |-> None]
    /\ pc = [e \in Engines |-> "absent"]
    /\ day = [e \in Engines |-> 0]
    /\ trajectories = [e \in Engines |-> <<>>]
    /\ day_values = [e \in Engines |-> <<>>]
    /\ results = [e \in Engines |-> <<>>]
    /\ summary = <<>>
    /\ \E agentic_url \in BOOLEAN : gateway = NoRequest(agentic_url)

\* POST /api/v1/gateway/query: the body is validated before process_query is
\* called; a body that fails is answered with 422.
ReceiveQuery ==
    /\ gateway.phase = "waiting"
    /\ \E body \in Requests :
           gateway' = IF QueryRequestValid(body)
                      THEN [gateway EXCEPT !.phase = "handling", !.request = body]
                      ELSE [gateway EXCEPT !.phase = "answered", !.request = body,
                                           !.status = 422]
    /\ UNCHANGED <<args, n_simulations, rng, model, pc, day, trajectories, day_values, results, summary>>

\* process_query, step 1 and the construction of the engine: the agentic
\* system is queried (the real client when AGENTIC_SYSTEM_URL is set, closed
\* after a query that returns), the response checked, the engine constructed.
QueryAgentic ==
    /\ gateway.phase = "handling"
    /\ \E outcome \in IF gateway.agentic_url THEN ClientOutcomes
                      ELSE {[raised |-> None, response |-> mock_query(gateway.request)]} :
           LET client == IF ~gateway.agentic_url THEN "none"
                         ELSE IF outcome.raised = None THEN "closed" ELSE "open"
               uc == gateway.request.user_context
           IN  IF AgenticFailed(outcome)
               THEN /\ gateway' = [gateway EXCEPT !.phase = "answered", !.status = 500,
                                       !.queried = TRUE, !.client = client,
                                       !.response = << outcome >>]
                    /\ UNCHANGED <<args, n_simulations, rng, pc>>
               ELSE /\ gateway' = [gateway EXCEPT !.phase = "modelling", !.queried = TRUE,
                                       !.client = client, !.response = << outcome >>]
                    /\ args' = [args EXCEPT ![1] =
                           Input(outcome.response.causal_graph, uc.genetics,
                                 uc.current_biomarkers, infer_environmental_changes(uc),
                                 REFERENCE_HORIZON, MaxTrials, DEFAULT_SEED)]
                    /\ n_simulations' = [n_simulations EXCEPT ![1] = MaxTrials]
                    /\ rng' = [rng EXCEPT ![1] = default_rng(DEFAULT_SEED)]
                    /\ pc' = [pc EXCEPT ![1] = "new"]
    /\ UNCHANGED <<model, day, trajectories, day_values, results, summary>>

\* process_query, step 2: engine.build_model
HandlerBuildModel == gateway.phase = "modelling" /\ BuildModel(1)

\* process_query, step 4: the one call of engine.predict
HandlerPredictStart ==
    gateway.phase = "modelling" /\ results[1] = <<>> /\ PredictStart(1)

HandlerDayStep == gateway.phase = "modelling" /\ DayStep(1)

HandlerPredictReturn == gateway.phase = "modelling" /\ PredictReturn(1)

\* process_query, step 5: the response, or HTTPException(500) for whatever
\* the try block raised.
Respond ==
    /\ gateway.phase = "modelling"
    /\ Len(results[1]) = 1
    /\ gateway' = [gateway EXCEPT !.phase = "answered",
                       !.status = IF results[1][1].raised = None THEN 200 ELSE 500]
    /\ UNCHANGED <<args, n_simulations, rng, model, pc, day, trajectories, day_values, results, summary>>

NextGateway ==
    \/ ReceiveQuery
    \/ QueryAgentic
    \/ HandlerBuildModel
    \/ HandlerPredictStart
    \/ HandlerDayStep
    \/ HandlerPredictReturn
    \/ Respond

SpecGateway == InitGateway /\ [][NextGateway]_vars

\* ---------------------------------------------------------------- claims
\* The configured baseline of biomarker b in engine e's model.
BaselineOf(e, b) == Get(model[e].graph.baseline_biomarkers, b, DEFAULT_ONE)

\* The predict calls of engine e that returned timelines.
Returned(e) == {k \in DOMAIN results[e] : results[e][k].raised = None}

\* Column 0 of every trajectory of a running predict holds the baseline in
\* every trial.
ColumnZeroIsBaseline ==
    \A e \in Engines :
        pc[e] = "running" =>
            \A b \in DOMAIN trajectories[e] :
                \A i \in 1..n_simulations[e] :
                    trajectories[e][b][0][i] = BaselineOf(e, b)

C2_Determinism ==
    \A e1 \in Engines, e2 \in Engines :
        (/\ args[e1] = args[e2]
         /\ Len(results[e1]) >= 1
         /\ Len(results[e2]) >= 1)
        => results[e1][1] = results[e2][1]

\* C2 witness: two distinct engines with equal inputs have both returned a
\* timeline whose day-30 mean the noise has moved.
C2_Witness ==
    /\ args[1] = args[2]
    /\ 1 \in Returned(1)
    /\ 1 \in Returned(2)
    /\ "CRP" \in DOMAIN results[2][1].predictions
    /\ Len(results[2][1].predictions["CRP"].timeline) >= 2
    /\ results[2][1].predictions["CRP"].timeline[2].confidence_interval[1]
           # results[2][1].predictions["CRP"].timeline[2].confidence_interval[2]

\* C3 as stated: the outcome of a predict call does not depend on the predict
\* calls made earlier on the same engine instance.
C3_NoStateAcrossCalls ==
    \A e \in Engines :
        \A k \in DOMAIN results[e] : results[e][k] = results[e][1]

\* C4 as stated: in every checkpoint of a timeline built from any trial
\* values (at least one trial), confidence_interval[0] <= mean <=
\* confidence_interval[1].
C4_CIContainment ==
    \A j \in DOMAIN summary :
        (summary[j].result.raised = None /\ Len(summary[j].trajectory[0]) >= 1) =>
            \A i \in DOMAIN summary[j].result.timeline :
                LET point == summary[j].result.timeline[i]
                IN  /\ FLe(point.confidence_interval[1], point.mean)
                    /\ FLe(point.mean, point.confidence_interval[2])

\* C5: every timeline the summarizer builds passes the PredictionTimeline
\* validator and every risk level in it is one of low, moderate, high,
\* unknown, for every biomarker id, mean and baseline.
C5_RiskLevelClosure ==
    \A j \in DOMAIN summary :
        /\ summary[j].result.raised = None
        /\ Len(summary[j].result.timeline) = Len(sample_days(summary[j].horizon_days))
        /\ \A i \in DOMAIN summary[j].result.timeline :
               summary[j].result.timeline[i].risk_level
                   \in {"low", "moderate", "high", "unknown"}

\* C5 witness: a biomarker other than CRP with a baseline that is not
\* positive, whose day-30 mean of 9.0 is classified by the fold of 1.0.
C5_Witness ==
    \E j \in DOMAIN summary :
        /\ summary[j].biomarker = "ALB"
        /\ summary[j].baseline <= 0
        /\ summary[j].result.raised = None
        /\ Len(summary[j].result.timeline) = 2
        /\ summary[j].result.timeline[2].mean = Num(900)
        /\ summary[j].result.timeline[2].risk_level = "low"

\* C6: a biomarker node without incoming edges holds, in every trial and on
\* every day the run has written, the value of the day before, which is its
\* baseline.
C6_NoSignalStability ==
    \A e \in Engines :
        pc[e] = "running" =>
            \A b \in DOMAIN trajectories[e] :
                in_edges(model[e], b) = <<>> =>
                    \A d \in 1..(day[e] - 1) :
                        /\ trajectories[e][b][d] = trajectories[e][b][d - 1]
                        /\ \A i \in 1..n_simulations[e] :
                               trajectories[e][b][d][i] = BaselineOf(e, b)

\* C6 witness: under an environmental change every day of the horizon is
\* written, CRP has moved and the biomarker without incoming edges has not.
C6_Witness ==
    \E e \in Engines :
        /\ pc[e] = "running"
        /\ day[e] > args[e].horizon_days
        /\ day[e] > 1
        /\ n_simulations[e] >= 1
        /\ "PM2.5" \in DOMAIN args[e].environmental_changes
        /\ {"ALB", "CRP"} \subseteq DOMAIN trajectories[e]
        /\ in_edges(model[e], "ALB") = <<>>
        /\ trajectories[e]["CRP"][day[e] - 1] # trajectories[e]["CRP"][0]
        /\ trajectories[e]["ALB"][day[e] - 1] = trajectories[e]["ALB"][0]

\* The nodes a causal path leads to from the nodes of S.
RECURSIVE Descendants(_, _)
Descendants(G, S) ==
    LET T == S \cup {G.edges[i].target : i \in {j \in DOMAIN G.edges : G.edges[j].source \in S}}
    IN  IF T = S THEN S ELSE Descendants(G, T)

CausallyPrecedes(G, a, b) == a # b /\ b \in Descendants(G, {a})

\* y is x with the multiplier of environmental node a raised.
MultiplierRaised(x, y, a) ==
    /\ [y EXCEPT !.environmental_changes = x.environmental_changes] = x
    /\ \A key \in (DOMAIN x.environmental_changes \cup DOMAIN y.environmental_changes) \ {a} :
           /\ key \in DOMAIN x.environmental_changes
           /\ key \in DOMAIN y.environmental_changes
           /\ x.environmental_changes[key] = y.environmental_changes[key]
    /\ Get(x.environmental_changes, a, DEFAULT_ONE) < Get(y.environmental_changes, a, DEFAULT_ONE)

\* C7 as stated: with everything else fixed, raising the multiplier of an
\* environmental node that causally precedes biomarker b never lowers the
\* mean of b at any checkpoint.
C7_MonotonicSensitivity ==
    \A e1 \in Engines, e2 \in Engines :
        (1 \in Returned(e1) /\ 1 \in Returned(e2)) =>
            \A a \in NodeIds(model[e1]) :
                (/\ HasType(NodeOf(model[e1], a))
                 /\ NodeOf(model[e1], a).attrs.type = "environmental"
                 /\ MultiplierRaised(args[e1], args[e2], a)) =>
                    \A b \in DOMAIN results[e1][1].predictions :
                        CausallyPrecedes(model[e1], a, b) =>
                            \A i \in DOMAIN results[e1][1].predictions[b].timeline :
                                ~FLt(results[e2][1].predictions[b].timeline[i].mean,
                                     results[e1][1].predictions[b].timeline[i].mean)

\* The reference scenario: the chain PM2.5 -> NFKB1 -> IL6 -> CRP with effect
\* sizes 0.65, 0.78 and 0.90 after genetic modification, baseline CRP 0.7, a
\* PM2.5 multiplier of 1.8, a 90-day horizon and at least one trial.
ReferenceModel ==
    build_model([nodes |-> ChainNodes, edges |-> ChainEdges, genetic_modifiers |-> <<>>],
                <<>>, [CRP |-> 7000])

ReferenceScenario(e) ==
    /\ pc[e] # "new"
    /\ model[e] = ReferenceModel
    /\ args[e].environmental_changes = [x \in {"PM2.5"} |-> 18000]
    /\ args[e].horizon_days = REFERENCE_HORIZON
    /\ n_simulations[e] >= 1

\* C8: in the reference scenario the day-0 checkpoint of CRP is low, and the
\* day-90 mean is above 0.70, strictly between 1.30 and 4.50, with a risk
\* level of moderate or high.
C8_ReferenceScenario ==
    \A e \in Engines :
        ReferenceScenario(e) =>
            \A k \in Returned(e) :
                LET timeline == results[e][k].predictions["CRP"].timeline
                    first == timeline[1]
                    last == timeline[Len(timeline)]
                IN  /\ first.day = 0
                    /\ first.risk_level = "low"
                    /\ last.day = REFERENCE_HORIZON
                    /\ ~last.mean.nan
                    /\ last.mean.v > 70
                    /\ last.mean.v > 130
                    /\ last.mean.v < 450
                    /\ last.risk_level \in {"moderate", "high"}

\* C8 witness: a reference run has returned its CRP timeline with the four
\* checkpoints 0, 30, 60 and 90.
C8_Witness ==
    \E e \in Engines :
        /\ ReferenceScenario(e)
        /\ \E k \in Returned(e) :
               /\ results[e][k].steps = REFERENCE_HORIZON
               /\ Len(results[e][k].predictions["CRP"].timeline) = 4
               /\ results[e][k].predictions["CRP"].timeline[4].day = REFERENCE_HORIZON

\* A configuration predict cannot use: a negative horizon, zero trials, a
\* graph without nodes or without a biomarker node.
BadConfiguration(x) ==
    \/ x.horizon_days < 0
    \/ x.n_simulations = 0
    \/ x.causal_graph.nodes = <<>>
    \/ \A i \in DOMAIN x.causal_graph.nodes : x.causal_graph.nodes[i].type # "biomarker"

\* C9 as stated: a configuration predict cannot use is rejected with an error
\* before any simulation step runs, and never yields a result.
C9_FailFast ==
    \A e \in Engines :
        BadConfiguration(args[e]) =>
            /\ pc[e] # "running"
            /\ \A k \in DOMAIN results[e] :
                   /\ results[e][k].raised # None
                   /\ results[e][k].steps = 0

\* y is x with one item added that refers to no node or edge of the graph: an
\* edge with an endpoint outside the node list, an environmental change keyed
\* by an unknown id, or a genetic rule for an edge that is absent.
InertItemAdded(x, y) ==
    LET ids == {x.causal_graph.nodes[i].id : i \in DOMAIN x.causal_graph.nodes}
        keys == {EdgeKey(x.causal_graph.edges[i].source, x.causal_graph.edges[i].target) :
                    i \in DOMAIN x.causal_graph.edges}
        gx == x.causal_graph
        gy == y.causal_graph
    IN  \/ /\ [y EXCEPT !.causal_graph.edges = gx.edges] = x
           /\ Len(gy.edges) = Len(gx.edges) + 1
           /\ SubSeq(gy.edges, 1, Len(gx.edges)) = gx.edges
           /\ \/ gy.edges[Len(gy.edges)].source \notin ids
              \/ gy.edges[Len(gy.edges)].target \notin ids
        \/ /\ [y EXCEPT !.environmental_changes = x.environmental_changes] = x
           /\ \E key \in DOMAIN y.environmental_changes \ DOMAIN x.environmental_changes :
                  /\ key \notin ids
                  /\ DOMAIN y.environmental_changes = DOMAIN x.environmental_changes \cup {key}
                  /\ \A other \in DOMAIN x.environmental_changes :
                         y.environmental_changes[other] = x.environmental_changes[other]
        \/ /\ [y EXCEPT !.causal_graph.genetic_modifiers = gx.genetic_modifiers] = x
           /\ Len(gy.genetic_modifiers) = Len(gx.genetic_modifiers) + 1
           /\ SubSeq(gy.genetic_modifiers, 1, Len(gx.genetic_modifiers)) = gx.genetic_modifiers
           /\ Get(gy.genetic_modifiers[Len(gy.genetic_modifiers)], "affects_edge", None) \notin keys

\* C10 as stated: an item that refers to no node or edge of the graph causes
\* no error in build_model or predict and leaves every returned timeline equal
\* to the one obtained without it.
C10_UnknownReferencesInert ==
    \A e1 \in Engines, e2 \in Engines :
        (/\ InertItemAdded(args[e1], args[e2])
         /\ Len(results[e1]) >= 1
         /\ Len(results[e2]) >= 1
         /\ results[e1][1].raised = None) =>
            /\ results[e2][1].raised = None
            /\ results[e2][1].predictions = results[e1][1].predictions

\* The graph has a directed cycle: some edge's source is reached from its target.
HasCycle(G) ==
    \E i \in DOMAIN G.edges : G.edges[i].source \in Descendants(G, {G.edges[i].target})

\* The ids of the biomarker-typed nodes of the input graph.
BiomarkerIds(x) ==
    {x.causal_graph.nodes[i].id :
        i \in {j \in DOMAIN x.causal_graph.nodes : x.causal_graph.nodes[j].type = "biomarker"}}

\* C11 as stated: on a graph with a directed cycle (every node typed, a
\* horizon that is not negative) predict does not fail: every call returns,
\* with one timeline per biomarker node.
C11_CycleFallback ==
    \A e \in Engines :
        (/\ pc[e] # "new"
         /\ HasCycle(model[e])
         /\ \A i \in DOMAIN model[e].nodes : HasType(model[e].nodes[i])
         /\ args[e].horizon_days >= 0) =>
            \A k \in DOMAIN results[e] :
                /\ results[e][k].raised = None
                /\ DOMAIN results[e][k].predictions = BiomarkerIds(args[e])

\* The rules that name the edge source->target and a gene the user carries
\* with exactly the rule's variant.
MatchingRules(rules, source, target, user_genetics) ==
    {j \in DOMAIN rules :
        /\ "affects_edge" \in DOMAIN rules[j]
        /\ rules[j].affects_edge = EdgeKey(source, target)
        /\ "gene" \in DOMAIN rules[j]
        /\ rules[j].gene \in DOMAIN user_genetics
        /\ "variant" \in DOMAIN rules[j]
        /\ user_genetics[rules[j].gene] = rules[j].variant}

\* base times the multipliers of the rules of S, taken in no particular order.
RECURSIVE ProductOver(_, _, _)
ProductOver(S, base, rules) ==
    IF S = {} THEN base
    ELSE LET j == CHOOSE j \in S : TRUE
         IN  ProductOver(S \ {j}, Mul(base, Get(rules[j], "multiplier", DEFAULT_ONE)), rules)

\* The orders in which n rules can be listed.
Orders(n) == {p \in [1..n -> 1..n] : \A a, b \in 1..n : p[a] = p[b] => a = b}

\* The input edge that wrote the built graph's edge (u, v): the last one of
\* the input edge list between these endpoints.
InputEdgeOf(x, u, v) ==
    LET edges == x.causal_graph.edges
        last == CHOOSE i \in DOMAIN edges :
                    /\ edges[i].source = u /\ edges[i].target = v
                    /\ \A j \in DOMAIN edges :
                           (edges[j].source = u /\ edges[j].target = v) => j <= i
    IN  edges[last]

\* C12: every edge of the built graph carries its input effect size times the
\* multipliers of exactly the rules that name the edge and a gene the user
\* carries with the rule's variant; any other rule changes nothing, and every
\* order of the rules gives the same effect size.
C12_GeneticModifiers ==
    \A e \in Engines :
        pc[e] = "built" =>
            \A i \in DOMAIN model[e].edges :
                LET stored == model[e].edges[i]
                    rules == args[e].causal_graph.genetic_modifiers
                    genetics == args[e].user_genetics
                    base == InputEdgeOf(args[e], stored.source, stored.target).effect_size
                    expected == ProductOver(
                                    MatchingRules(rules, stored.source, stored.target, genetics),
                                    base, rules)
                IN  /\ stored.attrs.effect_size = expected
                    /\ \A p \in Orders(Len(rules)) :
                           apply_genetic_modifier(base, stored.source, stored.target, genetics,
                                                  [j \in DOMAIN rules |-> rules[p[j]]]) = expected

\* C12 witness: a GSTM1 null carrier's graph with two rules for IL6->CRP, both
\* applied (0.90 x 1.3 x 0.5), the rule for the variant the user lacks not.
C12_Witness ==
    \E e \in Engines :
        /\ pc[e] = "built"
        /\ Cardinality(MatchingRules(args[e].causal_graph.genetic_modifiers,
                                     "IL6", "CRP", args[e].user_genetics)) = 2
        /\ MatchingRules(args[e].causal_graph.genetic_modifiers,
                         "NFKB1", "IL6", args[e].user_genetics) = {}
        /\ \E i \in DOMAIN model[e].edges :
               /\ model[e].edges[i].source = "IL6"
               /\ model[e].edges[i].target = "CRP"
               /\ model[e].edges[i].attrs.effect_size = 5850
        /\ \E i \in DOMAIN model[e].edges :
               /\ model[e].edges[i].source = "NFKB1"
               /\ model[e].edges[i].target = "IL6"
               /\ model[e].edges[i].attrs.effect_size = 7800

\* C13 as stated: every node of the input graph is a node of the built graph
\* with its type and label, and every edge of the input edge list is an edge
\* of the built graph with its own modified effect size, relationship tag and
\* lag, also when two input edges share source and target.
C13_BuildDropsNothing ==
    \A e \in Engines :
        pc[e] # "new" =>
            LET g == args[e].causal_graph
            IN  /\ \A i \in DOMAIN g.nodes :
                       \E j \in DOMAIN model[e].nodes :
                           /\ model[e].nodes[j].id = g.nodes[i].id
                           /\ model[e].nodes[j].attrs =
                                  [type |-> g.nodes[i].type, label |-> g.nodes[i].label]
                /\ \A i \in DOMAIN g.edges :
                       \E j \in DOMAIN model[e].edges :
                           /\ model[e].edges[j].source = g.edges[i].source
                           /\ model[e].edges[j].target = g.edges[i].target
                           /\ model[e].edges[j].attrs =
                                  [effect_size |->
                                       apply_genetic_modifier(g.edges[i].effect_size,
                                           g.edges[i].source, g.edges[i].target,
                                           args[e].user_genetics, g.genetic_modifiers),
                                   temporal_lag_hours |-> g.edges[i].temporal_lag_hours,
                                   relationship |-> g.edges[i].relationship]

\* C14: a timeline holds one checkpoint for each of the days 0, 30, 60, 90
\* that is not after the horizon, in increasing order, and no other; day 0
\* comes first and a horizon of 90 gives a day-90 checkpoint.
C14_CheckpointDays ==
    \A j \in DOMAIN summary :
        LET timeline == summary[j].result.timeline
            h == summary[j].horizon_days
        IN  /\ summary[j].result.raised = None
            /\ {timeline[i].day : i \in DOMAIN timeline} = {d \in {0, 30, 60, 90} : d <= h}
            /\ \A i, k \in DOMAIN timeline : i < k => timeline[i].day < timeline[k].day
            /\ h >= 0 => timeline[1].day = 0
            /\ h >= 90 => timeline[Len(timeline)].day = 90

\* C14 witness: a horizon of 45 days gives the checkpoints 0 and 30 only.
C14_Witness ==
    \E j \in DOMAIN summary :
        /\ summary[j].horizon_days = 45
        /\ summary[j].result.raised = None
        /\ Len(summary[j].result.timeline) = 2
        /\ summary[j].result.timeline[1].day = 0
        /\ summary[j].result.timeline[2].day = 30

\* The risk level the classification rule gives to n trial values of sum s:
\* CRP by the mean s/n against 1.0 and 3.0, any other biomarker by the fold
\* (s/n)/baseline against 1.5 and 2.5 (a fold of 1.0 without a positive
\* baseline); no trial values give no mean, which is below no threshold.
ClassifiedAs(biomarker, s, n, baseline) ==
    IF biomarker = "CRP"
    THEN IF n > 0 /\ s < CRP_LOW * n THEN "low"
         ELSE IF n > 0 /\ s < CRP_MODERATE * n THEN "moderate"
         ELSE "high"
    ELSE IF baseline <= 0 THEN "low"
         ELSE IF n > 0 /\ 2 * s < 3 * baseline * n THEN "low"
         ELSE IF n > 0 /\ 2 * s < 5 * baseline * n THEN "moderate"
         ELSE "high"

\* C15: the risk level of every checkpoint is the one the classification rule
\* gives to the mean of the day's trial values: CRP by absolute thresholds
\* whatever the baseline, every other biomarker by the fold over the baseline.
C15_RiskClassification ==
    \A j \in DOMAIN summary :
        \A i \in DOMAIN summary[j].result.timeline :
            LET point == summary[j].result.timeline[i]
                values == summary[j].trajectory[point.day]
            IN  point.risk_level =
                    ClassifiedAs(summary[j].biomarker, SumSeq(values), Len(values),
                                 summary[j].baseline)

\* C15 witness: a biomarker other than CRP with baseline 1.0 and a day-30 mean
\* of exactly 1.5 is moderate, its day-0 checkpoint low.
C15_Witness ==
    \E j \in DOMAIN summary :
        /\ summary[j].biomarker # "CRP"
        /\ summary[j].baseline = 10000
        /\ Len(summary[j].result.timeline) >= 2
        /\ summary[j].result.timeline[2].mean = Num(150)
        /\ summary[j].result.timeline[2].risk_level = "moderate"
        /\ summary[j].result.timeline[1].risk_level = "low"

\* C16: a running predict holds, for exactly the biomarker-typed nodes of the
\* graph, a trajectory of n_simulations rows and horizon_days + 1 columns;
\* every day step yields a value for each of them, which the run writes into
\* the day's column; and a returned result holds exactly one timeline per
\* biomarker-typed node, none for a node of another type.
C16_OneTimelinePerBiomarker ==
    \A e \in Engines :
        /\ pc[e] = "running" =>
               /\ DOMAIN trajectories[e] = BiomarkerIds(args[e])
               /\ \A b \in DOMAIN trajectories[e] :
                      /\ DOMAIN trajectories[e][b] = 0..args[e].horizon_days
                      \* every column as allocated, then the column just written
                      /\ day[e] = 1 =>
                             \A d \in DOMAIN trajectories[e][b] :
                                 Len(trajectories[e][b][d]) = n_simulations[e]
                      /\ \A d \in {0, day[e] - 1} :
                             Len(trajectories[e][b][d]) = n_simulations[e]
               /\ day[e] <= args[e].horizon_days =>
                      LET step == monte_carlo_step(model[e], args[e].environmental_changes,
                                      day[e], trajectories[e], EngineStream(e),
                                      n_simulations[e])
                      IN  step.raised = None =>
                              \A b \in DOMAIN trajectories[e] :
                                  /\ b \in DOMAIN step.node_values
                                  /\ Len(step.node_values[b]) = n_simulations[e]
        /\ \A k \in Returned(e) :
               /\ DOMAIN results[e][k].predictions = BiomarkerIds(args[e])
               /\ \A b \in BiomarkerIds(args[e]) :
                      results[e][k].predictions[b].raised = None

\* C16 witness: a graph with two biomarker nodes, one of them without incoming
\* edges, and nodes of the three other types has returned two timelines after
\* running every day of its horizon.
C16_Witness ==
    \E e \in Engines :
        /\ BiomarkerIds(args[e]) = {"CRP", "ALB"}
        /\ {args[e].causal_graph.nodes[i].type : i \in DOMAIN args[e].causal_graph.nodes}
               = {"environmental", "molecular", "biomarker", "genetic"}
        /\ \E k \in Returned(e) :
               /\ DOMAIN results[e][k].predictions = {"CRP", "ALB"}
               /\ results[e][k].steps = args[e].horizon_days
               /\ results[e][k].steps >= 1

\* The body breaks the request contract: a negative biomarker value, or no
\* query field.
RequestViolates(body) ==
    \/ "query" \notin DOMAIN body
    \/ \E key \in DOMAIN body.user_context.current_biomarkers :
           body.user_context.current_biomarkers[key] < 0

\* C17: a request with a negative biomarker value or without the query field
\* is answered with 422, and for it the agentic system is not queried, no
\* client is created, no engine constructed, no model built and no simulation
\* run.
C17_ValidationPrecedesWork ==
    (gateway.phase # "waiting" /\ RequestViolates(gateway.request)) =>
        /\ gateway.phase = "answered"
        /\ gateway.status = 422
        /\ ~gateway.queried
        /\ gateway.client = "none"
        /\ \A e \in Engines :
               /\ pc[e] = "absent"
               /\ results[e] = <<>>
               /\ trajectories[e] = <<>>

\* C17 witness: a request with its query field and a negative CRP value has
\* been answered with 422.
C17_Witness ==
    /\ gateway.phase = "answered"
    /\ gateway.status = 422
    /\ "query" \in DOMAIN gateway.request
    /\ "CRP" \in DOMAIN gateway.request.user_context.current_biomarkers
    /\ gateway.request.user_context.current_biomarkers["CRP"] < 0

\* The day of the latest step of engine e's day loop.
StepDay(e) == day[e] - 1

\* Engine e is in its day loop and its latest step has returned its values.
Stepped(e) ==
    /\ pc[e] = "running"
    /\ day[e] >= 2

\* The trajectories as that step read them: its own column not yet written.
Before(e) ==
    [b \in DOMAIN trajectories[e] |->
        [trajectories[e][b] EXCEPT ![StepDay(e)] = [i \in 1..n_simulations[e] |-> 0]]]

\* The nodes the step computes from their incoming edges, with these edges.
SignalEdges(e) ==
    {edge \in Range(model[e].edges) :
        NodeOf(model[e], edge.target).attrs.type \in {"molecular", "biomarker"}}

\* What one incoming edge adds to its target's total effect on the day, given
\* the values of the day.
Contribution(e, edge, node_values) ==
    TotalEffectFrom(1, <<edge>>, model[e], StepDay(e), Before(e), node_values,
                    n_simulations[e], [i \in 1..n_simulations[e] |-> 0])

Zeros(e) == [i \in 1..n_simulations[e] |-> 0]

\* effect_size x the values v of the source, per trial.
Weighted(e, edge, v) ==
    [i \in 1..n_simulations[e] |-> Mul(edge.attrs.effect_size, v[i])]

\* The source's values by precedence: of the same day, else of its trajectory
\* at max(0, day - lag_days), else the neutral 1.0.
SourceByPrecedence(e, edge, node_values) ==
    IF edge.source \in DOMAIN node_values THEN node_values[edge.source]
    ELSE IF edge.source \in DOMAIN trajectories[e]
    THEN Before(e)[edge.source]
             [Max(0, (StepDay(e) * 24 - edge.attrs.temporal_lag_hours) \div 24)]
    ELSE [i \in 1..n_simulations[e] |-> DEFAULT_ONE]

\* C18 as stated: an edge whose source has a value of the same day contributes
\* effect_size x that value; the lag test and the look-back apply only to an
\* edge whose source has none, and a source with neither counts as 1.0.
C18_SameDayBeforeLag ==
    \A e \in Engines :
        Stepped(e) =>
            LET node_values == day_values[e]
            IN  \A edge \in SignalEdges(e) :
                    Contribution(e, edge, node_values) =
                        IF edge.source \in DOMAIN node_values
                        THEN Weighted(e, edge, node_values[edge.source])
                        ELSE IF StepDay(e) * 24 < edge.attrs.temporal_lag_hours THEN Zeros(e)
                        ELSE Weighted(e, edge, SourceByPrecedence(e, edge, node_values))

\* C18, amended: the lag test comes first, for every edge: an edge whose lag
\* has not elapsed contributes nothing, also when its source has a value of
\* the same day; an edge whose lag has elapsed contributes effect_size x the
\* source's value by precedence.
C18_LagBeforeSameDay ==
    \A e \in Engines :
        Stepped(e) =>
            LET node_values == day_values[e]
            IN  \A edge \in SignalEdges(e) :
                    Contribution(e, edge, node_values) =
                        IF StepDay(e) * 24 < edge.attrs.temporal_lag_hours THEN Zeros(e)
                        ELSE Weighted(e, edge, SourceByPrecedence(e, edge, node_values))

\* C18 witness: on day 1 an edge with a lag of 72 hours contributes nothing
\* although its source has a same-day value that is not zero, and an edge
\* from a node without value and trajectory contributes effect_size x 1.0.
C18_Witness ==
    \E e \in Engines :
        /\ Stepped(e)
        /\ StepDay(e) = 1
        /\ n_simulations[e] >= 1
        /\ \E edge \in SignalEdges(e) :
               /\ edge.attrs.temporal_lag_hours = 72
               /\ edge.source \in DOMAIN day_values[e]
               /\ day_values[e][edge.source][1] # 0
               /\ Contribution(e, edge, day_values[e]) = Zeros(e)

\* C18, second witness case: a source with neither value nor trajectory.
C18_NeutralSource ==
    \E e \in Engines :
        /\ Stepped(e)
        /\ n_simulations[e] >= 1
        /\ \E edge \in SignalEdges(e) :
               /\ edge.source \notin DOMAIN day_values[e]
               /\ edge.source \notin DOMAIN trajectories[e]
               /\ Contribution(e, edge, day_values[e])[1] = edge.attrs.effect_size

\* C19: on a day before its lag has elapsed (24 x day < lag hours) an edge
\* adds nothing to its target's total effect, and from the day the lag has
\* elapsed on it adds effect_size x the source value; so a biomarker all of
\* whose incoming edges are still lagging keeps the value of the day before.
C19_LagGating ==
    \A e \in Engines :
        /\ Stepped(e) =>
               LET node_values == day_values[e]
               IN  \A edge \in SignalEdges(e) :
                       /\ StepDay(e) * 24 < edge.attrs.temporal_lag_hours =>
                              Contribution(e, edge, node_values) = Zeros(e)
                       /\ StepDay(e) * 24 >= edge.attrs.temporal_lag_hours =>
                              Contribution(e, edge, node_values) =
                                  Weighted(e, edge,
                                      source_value(model[e], edge.source, edge.attrs, StepDay(e),
                                                   Before(e), node_values,
                                                   n_simulations[e]))
        /\ pc[e] = "running" =>
               \A b \in DOMAIN trajectories[e] :
                   \A d \in 1..(day[e] - 1) :
                       (/\ in_edges(model[e], b) # <<>>
                        /\ \A edge \in Range(in_edges(model[e], b)) :
                               d * 24 < edge.attrs.temporal_lag_hours) =>
                           trajectories[e][b][d] = trajectories[e][b][d - 1]

\* C19 witness: CRP's only incoming edge has a lag of 72 hours; CRP has stayed
\* at its baseline on days 1 and 2 and has moved on day 3.
C19_Witness ==
    \E e \in Engines :
        /\ pc[e] = "running"
        /\ day[e] > 3
        /\ n_simulations[e] >= 1
        /\ "CRP" \in DOMAIN trajectories[e]
        /\ Len(in_edges(model[e], "CRP")) = 1
        /\ in_edges(model[e], "CRP")[1].attrs.temporal_lag_hours = 72
        /\ trajectories[e]["CRP"][1] = trajectories[e]["CRP"][0]
        /\ trajectories[e]["CRP"][2] = trajectories[e]["CRP"][0]
        /\ trajectories[e]["CRP"][3] # trajectories[e]["CRP"][2]

\* C20: a biomarker node with incoming edges gets, in every trial, the value
\* of the day before plus 0.02 x total_effect x (1 + noise), which is the
\* value of the day before when total_effect is 0; a molecular node with
\* incoming edges gets total_effect x (1 + noise), whatever its earlier days.
\* The noise is one draw of standard deviation 0.1.
C20_NodeUpdateRule ==
    \A e \in Engines :
        Stepped(e) =>
            LET node_values == day_values[e]
            IN  \A node \in {edge.target : edge \in SignalEdges(e)} :
                    LET total_effect ==
                            TotalEffectFrom(1, in_edges(model[e], node), model[e], StepDay(e),
                                            Before(e), node_values, n_simulations[e],
                                            Zeros(e))
                        biomarker == NodeOf(model[e], node).attrs.type = "biomarker"
                    IN  \A i \in 1..n_simulations[e] :
                            /\ \E z \in (0 - MaxZ)..MaxZ :
                                   LET noise == NODE_SIGMA * z
                                       change == ((((DAMPING * total_effect[i]) \div Scale)
                                                      * (Scale + noise)) \div Scale)
                                       direct == (total_effect[i] * (Scale + noise)) \div Scale
                                   IN  node_values[node][i] =
                                           IF biomarker
                                           THEN trajectories[e][node][StepDay(e) - 1][i] + change
                                           ELSE direct
                            /\ (biomarker /\ total_effect[i] = 0) =>
                                   node_values[node][i] = trajectories[e][node][StepDay(e) - 1][i]

\* C20 witness: on a day after the first, CRP moves by a damped increment from
\* its previous day while the molecular node feeding it has a value that is
\* not its value's increment.
C20_Witness ==
    \E e \in Engines :
        /\ Stepped(e)
        /\ StepDay(e) >= 2
        /\ n_simulations[e] >= 1
        /\ "CRP" \in DOMAIN trajectories[e]
        /\ in_edges(model[e], "CRP") # <<>>
        /\ "IL6" \in DOMAIN day_values[e]
        /\ day_values[e]["IL6"][1] > 0
        /\ day_values[e]["CRP"][1] > trajectories[e]["CRP"][StepDay(e) - 1][1]
        /\ day_values[e]["CRP"][1] - trajectories[e]["CRP"][StepDay(e) - 1][1]
               < day_values[e]["IL6"][1]

\* The nodes a day step draws noise for, in the day's processing order: the
\* environmental nodes and the molecular and biomarker nodes that have
\* incoming edges.
Draws(m) ==
    SelectSeq(topological_sort(m).order, LAMBDA id :
        \/ NodeOf(m, id).attrs.type = "environmental"
        \/ /\ NodeOf(m, id).attrs.type \in {"molecular", "biomarker"}
           /\ in_edges(m, id) # <<>>)

\* The day steps engine e has run since its construction.
StepsDone(e) ==
    SumSeq([k \in DOMAIN results[e] |-> results[e][k].steps]) + StepDay(e)

\* C21 as stated: every day step draws one noise vector of width
\* n_simulations for each node of the graph.
C21_OneDrawPerNode ==
    \A e \in Engines :
        pc[e] = "running" =>
            rng[e].pos = n_simulations[e] * Len(model[e].nodes) * StepsDone(e)

\* C21, amended: every day step draws one noise vector of width n_simulations
\* for each environmental node and for each molecular or biomarker node that
\* has incoming edges, and none for any other node; the vectors are
\* consecutive pieces of the engine's one stream, in the day's processing
\* order, and their number depends on the graph only, not on the day, the
\* environmental changes or the lags.
C21_OneDrawPerSignalNode ==
    \A e \in Engines :
        /\ pc[e] = "running" =>
               rng[e].pos = n_simulations[e] * Len(Draws(model[e])) * StepsDone(e)
        /\ Stepped(e) =>
               LET n == n_simulations[e]
                   draws == Draws(model[e])
                   first == rng[e].pos - n * Len(draws)
               IN  \A k \in DOMAIN draws :
                       LET node == draws[k]
                           type == NodeOf(model[e], node).attrs.type
                           sigma == IF type = "environmental" THEN ENV_SIGMA ELSE NODE_SIGMA
                           noise == normal([seed |-> rng[e].seed, pos |-> first + n * (k - 1)],
                                           sigma, n)
                           tracked == type = "biomarker" /\ node \in DOMAIN trajectories[e]
                           total_effect ==
                               TotalEffectFrom(1, in_edges(model[e], node), model[e],
                                               StepDay(e), Before(e), day_values[e], n,
                                               Zeros(e))
                       IN  \A i \in 1..n :
                               day_values[e][node][i] =
                                   IF type = "environmental"
                                   THEN environmental_value(
                                            Get(args[e].environmental_changes, node,
                                                DEFAULT_ONE), noise[i])
                                   ELSE node_update(tracked,
                                            IF tracked
                                            THEN trajectories[e][node][StepDay(e) - 1][i]
                                            ELSE 0,
                                            total_effect[i], noise[i])

\* C21 witness: a graph of six nodes, two of which draw nothing (a biomarker
\* without incoming edges and a genetic node), has stepped through a day on
\* which an edge's lag has not elapsed, and four vectors were drawn.
C21_Witness ==
    \E e \in Engines :
        /\ Stepped(e)
        /\ StepDay(e) = 1
        /\ n_simulations[e] >= 1
        /\ Len(model[e].nodes) = 6
        /\ Len(Draws(model[e])) = 4
        /\ \E edge \in Range(model[e].edges) : edge.attrs.temporal_lag_hours = 72
        /\ "PM2.5" \in DOMAIN args[e].environmental_changes
        /\ rng[e].pos = 4 * n_simulations[e]

\* The position of a node in an order.
PositionIn(order, id) == CHOOSE k \in DOMAIN order : order[k] = id

\* The node values of the latest day step of engine e after the first k nodes
\* of its processing order.
ValuesAfter(e, k) ==
    StepFrom(1, SubSeq(topological_sort(model[e]).order, 1, k), model[e],
             args[e].environmental_changes, StepDay(e), Before(e),
             [node_values |-> <<>>,
              rng |-> [seed |-> rng[e].seed,
                       pos |-> rng[e].pos - n_simulations[e] * Len(Draws(model[e]))]],
             n_simulations[e]).node_values

\* C22: on an acyclic graph the day's processing order holds every node once,
\* every node after all its causal ancestors; when a molecular or biomarker
\* node is computed, every environmental, molecular or biomarker source of
\* its incoming edges has a value of the same day, the one the step returns.
C22_CausalOrder ==
    \A e \in Engines :
        (Stepped(e) /\ ~HasCycle(model[e])) =>
            LET sorted == topological_sort(model[e])
                order == sorted.order
            IN  /\ sorted.ok
                /\ Len(order) = Len(model[e].nodes)
                /\ Range(order) = NodeIds(model[e])
                /\ \A a \in NodeIds(model[e]), b \in NodeIds(model[e]) :
                       CausallyPrecedes(model[e], a, b) =>
                           PositionIn(order, a) < PositionIn(order, b)
                /\ \A k \in DOMAIN order :
                       NodeOf(model[e], order[k]).attrs.type \in {"molecular", "biomarker"} =>
                           LET node_values == ValuesAfter(e, k - 1)
                           IN  \A edge \in Range(in_edges(model[e], order[k])) :
                                   NodeOf(model[e], edge.source).attrs.type
                                       \in {"environmental", "molecular", "biomarker"} =>
                                       /\ edge.source \in DOMAIN node_values
                                       /\ node_values[edge.source] = day_values[e][edge.source]

\* C22 witness: the graph lists its nodes against the direction of its edges
\* (the biomarker first), and the step has given the biomarker a value that
\* its same-day sources have moved.
C22_Witness ==
    \E e \in Engines :
        /\ Stepped(e)
        /\ ~HasCycle(model[e])
        /\ n_simulations[e] >= 1
        /\ Len(model[e].nodes) >= 4
        /\ model[e].nodes[1].id = "CRP"
        /\ \A edge \in Range(model[e].edges) :
               PositionIn([i \in DOMAIN model[e].nodes |-> model[e].nodes[i].id], edge.source)
                   > PositionIn([i \in DOMAIN model[e].nodes |-> model[e].nodes[i].id],
                                edge.target)
        /\ "IL6" \in DOMAIN day_values[e]
        /\ day_values[e]["CRP"][1] # trajectories[e]["CRP"][0][1]

\* The trajectories with every column from day d on overwritten.
Scrambled(t, d, n) ==
    [b \in DOMAIN t |->
        [c \in DOMAIN t[b] |-> IF c >= d THEN [i \in 1..n |-> 99999] ELSE t[b][c]]]

\* Engine e passes once through its day loop.
DayPassed(e) == pc[e] = "running" /\ pc'[e] = "running"

\* C23: a predict starts its day loop at day 1; the step of day d gives the
\* same values whatever the columns d and later hold, the run then writes
\* column d and no other, and goes on to day d + 1; the call returns after
\* day horizon_days (at once when the horizon has no day), with the
\* summaries of the trajectories as the loop left them.
C23_SequentialDays ==
    [][\A e \in Engines :
          /\ (pc[e] # "running" /\ pc'[e] = "running") => day'[e] = 1
          /\ DayPassed(e) =>
                 /\ day'[e] = day[e] + 1
                 /\ day[e] <= args[e].horizon_days
                 /\ monte_carlo_step(model[e], args[e].environmental_changes, day[e],
                                     Scrambled(trajectories[e], day[e], n_simulations[e]),
                                     rng[e], n_simulations[e]).node_values = day_values'[e]
                 /\ DOMAIN trajectories'[e] = DOMAIN trajectories[e]
                 /\ \A b \in DOMAIN trajectories[e] :
                        /\ DOMAIN trajectories'[e][b] = DOMAIN trajectories[e][b]
                        /\ \A c \in DOMAIN trajectories[e][b] :
                               trajectories'[e][b][c] =
                                   IF c = day[e] /\ b \in DOMAIN day_values'[e]
                                   THEN day_values'[e][b]
                                   ELSE trajectories[e][b][c]
          /\ (pc[e] = "running" /\ pc'[e] = "returned") =>
                 /\ day[e] = Max(args[e].horizon_days, 0) + 1
                 /\ \A b \in DOMAIN trajectories[e] :
                        results'[e][Len(results'[e])].predictions[b] =
                            create_timeline(b, trajectories[e][b],
                                Get(model[e].graph.baseline_biomarkers, b, DEFAULT_ONE),
                                args[e].horizon_days)
    ]_vars

\* C23 witness: two days have been written, each moving CRP, and the column
\* of the day to come is still as allocated.
C23_Witness ==
    \E e \in Engines :
        /\ pc[e] = "running"
        /\ day[e] = 3
        /\ day[e] <= args[e].horizon_days
        /\ n_simulations[e] >= 1
        /\ "CRP" \in DOMAIN trajectories[e]
        /\ trajectories[e]["CRP"][1][1] # trajectories[e]["CRP"][0][1]
        /\ trajectories[e]["CRP"][2][1] # trajectories[e]["CRP"][1][1]
        /\ trajectories[e]["CRP"][3] = Zeros(e)

\* Every input edge is within the validated ranges of CausalEdge.
InputEdgesValid(x) ==
    \A i \in DOMAIN x.causal_graph.edges :
        /\ x.causal_graph.edges[i].effect_size >= 0
        /\ x.causal_graph.edges[i].effect_size <= Scale
        /\ x.causal_graph.edges[i].temporal_lag_hours >= 0

\* C24 as stated: every edge of the graph build_model returns carries an
\* effect size in [0,1] and a lag that is not negative, also after the
\* genetic-modifier multipliers were applied to validated input edges.
C24_EffectSizeRange ==
    \A e \in Engines :
        (pc[e] # "new" /\ InputEdgesValid(args[e])) =>
            \A edge \in Range(model[e].edges) :
                /\ edge.attrs.effect_size >= 0
                /\ edge.attrs.effect_size <= Scale
                /\ edge.attrs.temporal_lag_hours >= 0

\* y is x with other relationship tags on its edges, and nothing else changed.
SameButTags(x, y) ==
    /\ [y EXCEPT !.causal_graph.edges = x.causal_graph.edges] = x
    /\ Len(y.causal_graph.edges) = Len(x.causal_graph.edges)
    /\ \A i \in DOMAIN x.causal_graph.edges :
           [y.causal_graph.edges[i] EXCEPT
                !.relationship = x.causal_graph.edges[i].relationship]
               = x.causal_graph.edges[i]

\* C25: two engines whose inputs differ in the relationship tags of edges
\* only get the same outcome from their first predict, and in every day step
\* an edge whose lag has elapsed adds effect_size x the source value to its
\* target's total effect, whatever its tag.
C25_RelationshipIgnored ==
    /\ \A e1 \in Engines, e2 \in Engines :
           (/\ SameButTags(args[e1], args[e2])
            /\ Len(results[e1]) >= 1
            /\ Len(results[e2]) >= 1)
           => results[e1][1] = results[e2][1]
    /\ \A e \in Engines :
           Stepped(e) =>
               \A edge \in SignalEdges(e) :
                   (/\ edge.attrs.relationship \in {"inhibits", "decreases"}
                    /\ StepDay(e) * 24 >= edge.attrs.temporal_lag_hours) =>
                       Contribution(e, edge, day_values[e]) =
                           Weighted(e, edge, SourceByPrecedence(e, edge, day_values[e]))

\* C25 witness: the second engine's edges are tagged inhibits and decreases
\* where the first one's are tagged activates and increases; both have
\* returned the same timeline, in which CRP has risen above its baseline.
C25_Witness ==
    /\ args[1] # args[2]
    /\ SameButTags(args[1], args[2])
    /\ \E i \in DOMAIN args[2].causal_graph.edges :
           /\ args[2].causal_graph.edges[i].relationship = "decreases"
           /\ args[1].causal_graph.edges[i].relationship = "increases"
    /\ 1 \in Returned(1)
    /\ 1 \in Returned(2)
    /\ "CRP" \in DOMAIN results[2][1].predictions
    /\ Len(results[2][1].predictions["CRP"].timeline) >= 2
    /\ results[2][1].predictions["CRP"].timeline[2].mean.v
           > results[2][1].predictions["CRP"].timeline[1].mean.v
    /\ results[1][1] = results[2][1]

\* C26 as stated: when AGENTIC_SYSTEM_URL is set, the client created for a
\* request is closed by the time the request is answered, also when the
\* agentic query raised, and a query that raised is answered with 500.
C26_ClientClosed ==
    (gateway.phase = "answered" /\ gateway.agentic_url /\ gateway.queried) =>
        /\ gateway.client = "closed"
        /\ gateway.response[1].raised # None => gateway.status = 500

====
